---- MODULE Spec2Model ----
(***************************************************************************)
(* A model of the CSV splitter of src-tauri/src/lib.rs: the command        *)
(* split_csv, its two strategies split_csv_internal (sequential) and       *)
(* split_csv_multithread (memory-mapped, one worker thread per chunk) and  *)
(* the spreadsheet conversion pass.                                        *)
(*                                                                         *)
(* A source file is a sequence of bytes (one-character strings).  The csv  *)
(* reader, the line index and the chunk arithmetic are operators computed  *)
(* on those bytes as the code computes them.  The output directory is the  *)
(* triple tmp / csv / xlsx of the files the code creates in it, and the    *)
(* .csv files (others) it held before the call.                            *)
(***************************************************************************)
EXTENDS Integers, Sequences, FiniteSets, TLC

\* ------------------------------------------------------------------ bounds

\* Largest number of lines (header included) of a source with a defective line.
MaxLines == 5

\* Largest number of lines (header included) of a source without one.
MaxPlainLines == 10

\* Largest rows_per_file of a request (0 is the invalid request).
MaxRowsPerFile == 4

\* Largest number of shards a request asks for: ceil(lines / rows_per_file).
MaxShards == 3

\* Largest number of lines of a source under the fair specification.
MaxFairLines == 3

\* ------------------------------------------------------------------ bytes

NL == "\n"
CR == "\r"
QUOTE == "\""
COMMA == ","

Max(a, b) == IF a >= b THEN a ELSE b
Min(a, b) == IF a <= b THEN a ELSE b

\* a saturating usize subtraction
SaturatingSub(a, b) == IF a >= b THEN a - b ELSE 0

\* ceil(a / b) as the code computes it, (a + b - 1) / b
CeilDiv(a, b) == (a + b - 1) \div b

\* ------------------------------------------------------------ the sources

\* The lines of a source end with "\n".  The text of line i is a letter of its
\* own, so that rows are told apart.
Letters == <<"a", "b", "c", "d", "e", "f", "g", "h", "i", "j", "k", "l", "m">>

Defects == {"none", "blank", "ragged", "quoted"}

\* Line i of a source whose line k carries the defect: an empty line, a line
\* with one field more than the others, a quoted field holding two line
\* terminators, or ("cr") four records that a lone "\r" ends.
LineText(i, defect, k) ==
    IF i # k \/ defect = "none" THEN <<Letters[i]>>
    ELSE IF defect = "blank" THEN <<>>
    ELSE IF defect = "ragged" THEN <<Letters[i], COMMA, "x">>
    ELSE IF defect = "cr" THEN <<Letters[i], CR, "y", CR, "z", CR, "w">>
    ELSE <<QUOTE, Letters[i], NL, "y", NL, "z", QUOTE>>

RECURSIVE SourceFrom(_, _, _, _, _)
SourceFrom(i, n, defect, k, terminated) ==
    IF i > n THEN <<>>
    ELSE LineText(i, defect, k)
         \o (IF i < n \/ terminated THEN <<NL>> ELSE <<>>)
         \o SourceFrom(i + 1, n, defect, k, terminated)

\* The sources without a defective line: 0..MaxPlainLines lines, the last
\* line terminated or not.
PlainSources ==
    { SourceFrom(1, n, "none", 1, t) : n \in 0..MaxPlainLines, t \in BOOLEAN }

\* The sources with a line of "\r"-ended records: 1..MaxPlainLines lines.
CrSources ==
    UNION { { SourceFrom(1, n, "cr", k, t) : k \in 1..n, t \in BOOLEAN } :
              n \in 1..MaxPlainLines }

\* The sources of the model: the plain ones, those of 1..MaxLines lines with
\* one defective line, and those with a line of "\r"-ended records.
Sources ==
    PlainSources
    \cup { SourceFrom(1, n, d, k, t) :
             n \in 1..MaxLines, d \in Defects, k \in 1..MaxLines, t \in BOOLEAN }
    \cup CrSources

\* the number of lines of the text of a source
RECURSIVE CountLines(_, _)
CountLines(bytes, i) ==
    IF i > Len(bytes) THEN 0
    ELSE (IF bytes[i] = NL \/ i = Len(bytes) THEN 1 ELSE 0) + CountLines(bytes, i + 1)

\* The requests of the model ask for at most MaxShards shards.
WithinShards(bytes, per_file) ==
    IF per_file = 0 THEN TRUE
    ELSE CeilDiv(CountLines(bytes, 1), per_file) <= MaxShards

\* --------------------------------------------------------- the csv reader

\* csv-core's record reader on a byte buffer: the sequence of records, each a
\* sequence of fields, each a sequence of bytes.  Fields end at a comma,
\* records at a terminator ("\r", "\n" or "\r\n", the default Terminator::CRLF)
\* or at the end of the buffer; empty lines are
\* skipped; a field that starts with a quote runs to its closing quote, line
\* terminators included, and a doubled quote inside it is one quote.
IsTerminator(b) == b = NL \/ b = CR

RECURSIVE ParseFrom(_, _, _, _, _, _)
ParseFrom(bytes, i, st, field, rec, out) ==
    IF i > Len(bytes)
    THEN IF st = "StartRecord" THEN out ELSE Append(out, Append(rec, field))
    ELSE LET b == bytes[i] IN
      CASE st = "StartRecord" ->
             IF IsTerminator(b) THEN ParseFrom(bytes, i + 1, "StartRecord", <<>>, <<>>, out)
             ELSE ParseFrom(bytes, i, "StartField", <<>>, <<>>, out)
        [] st = "StartField" ->
             IF b = QUOTE THEN ParseFrom(bytes, i + 1, "InQuotedField", <<>>, rec, out)
             ELSE IF b = COMMA
               THEN ParseFrom(bytes, i + 1, "StartField", <<>>, Append(rec, <<>>), out)
             ELSE IF IsTerminator(b)
               THEN ParseFrom(bytes, i + 1, "StartRecord", <<>>, <<>>,
                              Append(out, Append(rec, <<>>)))
             ELSE ParseFrom(bytes, i + 1, "InField", <<b>>, rec, out)
        [] st = "InField" ->
             IF b = COMMA
               THEN ParseFrom(bytes, i + 1, "StartField", <<>>, Append(rec, field), out)
             ELSE IF IsTerminator(b)
               THEN ParseFrom(bytes, i + 1, "StartRecord", <<>>, <<>>,
                              Append(out, Append(rec, field)))
             ELSE ParseFrom(bytes, i + 1, "InField", Append(field, b), rec, out)
        [] st = "InQuotedField" ->
             IF b = QUOTE THEN ParseFrom(bytes, i + 1, "InDoubleEscapedQuote", field, rec, out)
             ELSE ParseFrom(bytes, i + 1, "InQuotedField", Append(field, b), rec, out)
        [] OTHER ->  \* InDoubleEscapedQuote: the byte after a quote in a quoted field
             IF b = QUOTE
               THEN ParseFrom(bytes, i + 1, "InQuotedField", Append(field, b), rec, out)
             ELSE IF b = COMMA
               THEN ParseFrom(bytes, i + 1, "StartField", <<>>, Append(rec, field), out)
             ELSE IF IsTerminator(b)
               THEN ParseFrom(bytes, i + 1, "StartRecord", <<>>, <<>>,
                              Append(out, Append(rec, field)))
             ELSE ParseFrom(bytes, i + 1, "InField", Append(field, b), rec, out)

ParseRecords(bytes) == ParseFrom(bytes, 1, "StartRecord", <<>>, <<>>, <<>>)

\* A Reader with flexible(false): the first record read fixes the field count
\* and a record with another count is an error (UnequalLengths).
RecordOk(records, j) == Len(records[j]) = Len(records[1])

\* A Writer with flexible(false): the first record written (the header row)
\* fixes the field count and a record with another count is an error.
WriterOk(header_row, record) == Len(record) = Len(header_row)

\* The number of leading records of `records` a reader returns before its
\* first error.
RECURSIVE GoodPrefix(_, _)
GoodPrefix(records, j) ==
    IF j > Len(records) THEN Len(records)
    ELSE IF RecordOk(records, j) THEN GoodPrefix(records, j + 1)
    ELSE j - 1

\* format!("column_{}", i + 1), one byte per character
ColumnName(i) == <<"c", "o", "l", "u", "m", "n", "_", ToString(i)>>

\* (0..record_count).map(|i| format!("column_{}", i + 1))
DefaultHeaders(record_count) == [i \in 1..record_count |-> ColumnName(i)]

\* ------------------------------------------------------------------ state

NoResult == [ret |-> "none", success |-> FALSE, file_count |-> 0,
             error |-> "", chunk |-> 0]

\* no earlier call
NoCall == [called |-> FALSE, use_multithread |-> FALSE, result |-> NoResult,
           files |-> <<>>]

VARIABLES
    \* the request (SplitParams) and the file at input_path
    input_exists,       \* a file exists at params.input_path
    input,              \* the bytes of that file
    extension,          \* the extension of params.input_path
    rows_per_file,      \* params.rows_per_file
    has_header,         \* params.has_header
    convert_to_excel,   \* params.convert_to_excel, once the call has read it
    \* the output directory
    dir,                \* "writable", "unwritable", "absent" or "uncreatable"
    tmp,                \* test_write.tmp exists
    csv,                \* index i |-> the records of <stem>_i.csv
    xlsx,               \* index i |-> the rows of <stem>_i.xlsx
    others,             \* the .csv files in it that no call of split_csv wrote
    others_xlsx,        \* those of them a spreadsheet was written for
    \* the call
    pc,                 \* the position of the task running split_csv
    use_multithread,    \* the strategy split_csv selected
    result,             \* what split_csv returned
    \* locals of split_csv_internal
    headers, reader, current_file_index, current_row_count, total_files,
    record_count, convert_index,
    \* locals of split_csv_multithread
    data_lines, file_count, rows_per_chunk, chunk_boundaries, file_index,
    completed_files,
    handles,            \* file_index |-> the worker thread spawned for it
    channel,            \* the (file_index, result) messages sent and not received
    tx_dropped,         \* the coordinator dropped its sender
    rx_dropped,         \* the receiver was dropped (the function returned)
    semaphore,          \* the file_index of the worker holding the lock, or 0
    poisoned,           \* a worker panicked while it held the lock
    \* what the call has done so far
    created,            \* the shard indices File::create made in this call
    flushed,            \* those of them whose writer was flushed
    opened,             \* the source was opened (or mapped) for reading
    prev                \* the outcome of an earlier call on the same request

source == <<input_exists, input, extension, rows_per_file, has_header, prev>>
request == <<source, convert_to_excel>>
preexisting == <<others, others_xlsx>>
outdir == <<dir, tmp, csv, xlsx, preexisting>>
seq_locals == <<headers, reader, current_file_index, current_row_count,
                total_files, record_count, convert_index>>
mt_locals == <<data_lines, file_count, rows_per_chunk, chunk_boundaries,
               file_index, completed_files>>
threads == <<handles, channel, tx_dropped, rx_dropped, semaphore, poisoned>>
history == <<created, flushed, opened>>
vars == <<request, outdir, pc, use_multithread, result, seq_locals, mt_locals,
          threads, history>>

Extensions == {"csv", "txt"}

\* The .csv files an output directory may hold before the call: the input
\* file itself, <stem>.csv, when the output directory is the input's; a shard
\* <stem>_9.csv of an earlier run; and other.csv, whose name does not start
\* with the stem.
OtherFiles == {"input", "earlier", "unrelated"}

\* the records of <stem>_9.csv
EarlierRows == <<<<<<"h">>>>, <<<<"v">>>>>>

\* the records of one of these files
OtherRows(f) == IF f = "input" THEN ParseRecords(input) ELSE EarlierRows
DirStates == {"writable", "unwritable", "absent", "uncreatable"}

\* no file of index i
Empty == <<>>

\* f with index i (re)bound to v
Put(f, i, v) == (i :> v) @@ f

\* f without index i
Remove(f, i) == [j \in (DOMAIN f) \ {i} |-> f[j]]

Init ==
    /\ input_exists \in BOOLEAN
    /\ extension \in Extensions
    /\ input \in IF ~input_exists THEN {<<>>}
                 ELSE IF extension = "csv" THEN Sources
                 ELSE PlainSources
    /\ rows_per_file \in 0..MaxRowsPerFile
    /\ WithinShards(input, rows_per_file)
    /\ has_header \in BOOLEAN
    /\ convert_to_excel = FALSE
    /\ dir \in DirStates
    /\ tmp = FALSE
    /\ others \in IF input_exists /\ extension = "csv" /\ input \in PlainSources
                      /\ dir = "writable"
                   THEN SUBSET OtherFiles
                   ELSE {{}}
    /\ others_xlsx = {}
    /\ csv = Empty
    /\ xlsx = Empty
    /\ pc = "split_csv"
    /\ use_multithread = FALSE
    /\ result = NoResult
    /\ headers = <<>>
    /\ reader = 0
    /\ current_file_index = 1
    /\ current_row_count = 0
    /\ total_files = 0
    /\ record_count = 0
    /\ convert_index = 1
    /\ data_lines = 0
    /\ file_count = 0
    /\ rows_per_chunk = 0
    /\ chunk_boundaries = <<>>
    /\ file_index = 1
    /\ completed_files = 0
    /\ handles = Empty
    /\ channel = <<>>
    /\ tx_dropped = FALSE
    /\ rx_dropped = FALSE
    /\ semaphore = 0
    /\ poisoned = FALSE
    /\ created = {}
    /\ flushed = {}
    /\ opened = FALSE
    /\ prev = NoCall

\* ---------------------------------------------------------------- results

\* Err(String) of the command itself
CommandErr(e) == [ret |-> "Err", success |-> FALSE, file_count |-> 0,
                  error |-> e, chunk |-> 0]

\* Ok(SplitResult { success: false, file_count: 0, error: Some(e) })
Failure(e, chunk) == [ret |-> "Ok", success |-> FALSE, file_count |-> 0,
                      error |-> e, chunk |-> chunk]

\* Ok(SplitResult { success: true, file_count, error: None })
Success(n) == [ret |-> "Ok", success |-> TRUE, file_count |-> n,
               error |-> "", chunk |-> 0]

\* the strategy returns Err(e): split_csv wraps it and returns
ReturnErr(e) == /\ result' = Failure(e, 0)
                /\ pc' = "done"

\* the strategy returns Ok(n): split_csv wraps it and returns
ReturnOk(n) == /\ result' = Success(n)
               /\ pc' = "done"

\* ---------------------------------------------------------------- split_csv

\* split_csv up to the call of a strategy.  The selector's thresholds (100 MiB,
\* 500 000 lines) lie far above the sources of the model, so its verdict is
\* an input here: a source stands for a file on either side of them.
SplitCsv ==
    /\ pc = "split_csv"
    /\ IF ~input_exists
       THEN /\ result' = CommandErr("MetadataFailed")
            /\ pc' = "done"
            /\ UNCHANGED use_multithread
       ELSE /\ \E m \in BOOLEAN :
                 /\ use_multithread' = m
                 /\ pc' = IF m THEN "mt_validate" ELSE "validate"
            /\ UNCHANGED result
    /\ UNCHANGED <<request, outdir, seq_locals, mt_locals, threads, history>>

\* ------------------------------------------------------ split_csv_internal

\* the checks of the input file
SeqValidate ==
    /\ pc = "validate"
    /\ IF ~input_exists THEN ReturnErr("InputMissing")
       ELSE IF extension # "csv" THEN ReturnErr("NotCsv")
       ELSE IF Len(input) = 0 THEN ReturnErr("EmptyFile")
       ELSE pc' = "create_dir" /\ UNCHANGED result
    /\ UNCHANGED <<request, outdir, use_multithread, seq_locals, mt_locals, threads, history>>

\* create_dir_all when the output directory is absent
SeqCreateDir ==
    /\ pc = "create_dir"
    /\ IF dir = "uncreatable"
       THEN ReturnErr("CreateDirFailed") /\ UNCHANGED dir
       ELSE /\ dir' = IF dir = "absent" THEN "writable" ELSE dir
            /\ pc' = "probe"
            /\ UNCHANGED result
    /\ UNCHANGED <<request, preexisting, tmp, csv, xlsx, use_multithread, seq_locals, mt_locals, threads, history>>

\* File::create(test_write.tmp)
SeqProbe ==
    /\ pc = "probe"
    /\ IF dir # "writable"
       THEN ReturnErr("NoWritePermission") /\ UNCHANGED tmp
       ELSE /\ tmp' = TRUE
            /\ pc' = "probe_remove"
            /\ UNCHANGED result
    /\ UNCHANGED <<request, preexisting, dir, csv, xlsx, use_multithread, seq_locals, mt_locals, threads, history>>

\* remove_file(test_write.tmp)
SeqProbeRemove ==
    /\ pc = "probe_remove"
    /\ tmp' = FALSE
    /\ pc' = "open"
    /\ UNCHANGED <<request, preexisting, dir, csv, xlsx, use_multithread, result, seq_locals, mt_locals,
                   threads, history>>

\* headers of the sequential reader: the first record, or column_1..column_k
SeqHeaders(records) ==
    LET first == IF records = <<>> THEN <<>> ELSE records[1]
    IN  IF has_header THEN first ELSE DefaultHeaders(Len(first))

\* open the source, check rows_per_file, read the headers
SeqOpen ==
    /\ pc = "open"
    /\ opened' = TRUE
    /\ LET records == ParseRecords(input) IN
       IF rows_per_file = 0
         THEN ReturnErr("RowsPerFileZero") /\ UNCHANGED <<headers, reader>>
       ELSE IF ~has_header /\ (records = <<>> \/ Len(records[1]) = 0)
         THEN ReturnErr("NoColumns") /\ UNCHANGED <<headers, reader>>
       ELSE /\ headers' = SeqHeaders(records)
            \* with has_headers(true) the header record is consumed
            /\ reader' = IF has_header /\ records # <<>> THEN 1 ELSE 0
            /\ pc' = "loop"
            /\ UNCHANGED result
    /\ UNCHANGED <<request, outdir, use_multithread, current_file_index,
                   current_row_count, total_files, record_count, convert_index,
                   mt_locals, threads, created, flushed>>

\* no flush of the writer
FlushWriterSkipped(done, i) == done

\* w.flush(): the rows of shard i are on disk
FlushWriter(done, i) == done \cup {i}

\* the reset one row late
NextRowCountLate(count) == IF count + 1 > rows_per_file THEN 0 ELSE count + 1

\* current_row_count after one more row
NextRowCount(count) == IF count + 1 >= rows_per_file THEN 0 ELSE count + 1

\* one turn of the read loop
SeqRecord ==
    /\ pc = "loop"
    /\ LET records == ParseRecords(input)
           j == reader + 1
       IN
       IF j > Len(records) \/ ~RecordOk(records, j)
         THEN \* end of file, or Err(_): the while-let loop ends
              /\ pc' = "finish"
              /\ UNCHANGED <<result, csv, reader, current_file_index, current_row_count,
                             total_files, record_count, created, flushed>>
         ELSE IF ~WriterOk(headers, records[j])
         THEN /\ ReturnErr("WriteFailed")
              /\ UNCHANGED <<csv, reader, current_file_index, current_row_count,
                             total_files, record_count, created, flushed>>
         ELSE /\ reader' = j
              /\ record_count' = record_count + 1
              /\ UNCHANGED result
              /\ IF current_row_count = 0
                   THEN /\ csv' = Put(csv, current_file_index, <<headers, records[j]>>)
                        /\ created' = created \cup {current_file_index}
                        \* writer.take(): the writer of the shard before is flushed
                        /\ flushed' = IF current_file_index > 1
                                      THEN FlushWriter(flushed, current_file_index - 1)
                                      ELSE flushed
                        /\ total_files' = total_files + 1
                        /\ current_file_index' = current_file_index + 1
                   ELSE /\ csv' = Put(csv, current_file_index - 1,
                                      Append(csv[current_file_index - 1], records[j]))
                        /\ UNCHANGED <<created, flushed, total_files, current_file_index>>
              /\ current_row_count' = NextRowCount(current_row_count)
              /\ pc' = "loop"
    /\ UNCHANGED <<request, preexisting, dir, tmp, xlsx, use_multithread, headers,
                   convert_index, mt_locals, threads, opened>>

\* after the loop: the checks, the last flush, the conversion or the return.
\* params.convert_to_excel is read here and nowhere before: it is an input of
\* this step, kept once read.
SeqFinish ==
    /\ pc = "finish"
    /\ IF record_count = 0
         THEN ReturnErr("NoDataRows") /\ UNCHANGED convert_to_excel
       ELSE IF total_files = 0
         THEN ReturnErr("NoFiles") /\ UNCHANGED convert_to_excel
       ELSE \E flag \in BOOLEAN :
              /\ convert_to_excel' = flag
              /\ IF flag THEN pc' = "convert" /\ UNCHANGED result
                 ELSE ReturnOk(total_files)
    \* the last writer is flushed once the loop has read a record
    /\ flushed' = IF record_count = 0 THEN flushed
                  ELSE FlushWriter(flushed, current_file_index - 1)
    /\ UNCHANGED <<source, outdir, use_multithread, seq_locals, mt_locals, threads,
                   created, opened>>

\* convert_csv_to_excel_minimal reads the shard with has_headers(true) and
\* flexible(false): a row whose field count differs from the header's fails.
ConvertibleRows(rows) == \A j \in 1..Len(rows) : Len(rows[j]) = Len(rows[1])

\* What one conversion does: convert_csv_to_excel_minimal saves the
\* spreadsheet or fails, and after a save remove_file deletes the shard or
\* fails.
ConvertOutcomes == {"ok", "save_failed", "remove_failed"}

\* the outcome of the conversion of `rows`, io being what the file system does
ConvertOutcome(rows, io) == IF ConvertibleRows(rows) THEN io ELSE "save_failed"

\* the shard removed whatever the conversion did
CsvAfterConvertEager(files, i, outcome) == Remove(files, i)

\* the .csv files after the conversion of shard i: remove_file runs only
\* after convert_csv_to_excel_minimal returned Ok
CsvAfterConvert(files, i, outcome) ==
    IF outcome = "ok" THEN Remove(files, i) ELSE files

\* the .xlsx files after the conversion of shard i
XlsxAfterConvert(sheets, files, i, outcome) ==
    IF outcome = "save_failed" THEN sheets ELSE Put(sheets, i, files[i])

\* one turn of the loop of convert_csv_files_to_excel
SeqConvert ==
    /\ pc = "convert"
    /\ LET i == convert_index IN
       IF i > total_files
         THEN ReturnOk(total_files) /\ UNCHANGED <<csv, xlsx, convert_index>>
       ELSE IF i \notin DOMAIN csv
         THEN /\ convert_index' = i + 1
              /\ UNCHANGED <<csv, xlsx, pc, result>>
       ELSE \E io \in ConvertOutcomes :
              LET outcome == ConvertOutcome(csv[i], io) IN
              /\ xlsx' = XlsxAfterConvert(xlsx, csv, i, outcome)
              /\ csv' = CsvAfterConvert(csv, i, outcome)
              /\ IF outcome = "ok"
                   THEN convert_index' = i + 1 /\ UNCHANGED <<pc, result>>
                   ELSE ReturnErr("ConvertFailed") /\ UNCHANGED convert_index
    /\ UNCHANGED <<request, preexisting, dir, tmp, use_multithread, headers, reader,
                   current_file_index, current_row_count, total_files,
                   record_count, mt_locals, threads, history>>

\* --------------------------------------------------- split_csv_multithread

\* the byte at 0-based offset i
ByteAt(bytes, i) == bytes[i + 1]

\* line_breaks: the 0-based offsets of the line terminators, in order
RECURSIVE LineBreaksFrom(_, _)
LineBreaksFrom(bytes, i) ==
    IF i >= Len(bytes) THEN <<>>
    ELSE (IF ByteAt(bytes, i) = NL THEN <<i>> ELSE <<>>)
         \o LineBreaksFrom(bytes, i + 1)

LineBreaks(bytes) == LineBreaksFrom(bytes, 0)

\* total_lines: one per terminator, and one more for an unterminated last
\* line when the file has a terminator at all
TotalLines(bytes) ==
    LET line_breaks == LineBreaks(bytes) IN
    Len(line_breaks)
    + (IF line_breaks # <<>> /\ line_breaks[Len(line_breaks)] # Len(bytes) - 1
       THEN 1 ELSE 0)

DataLines(bytes, header) ==
    IF header THEN SaturatingSub(TotalLines(bytes), 1) ELSE TotalLines(bytes)

FileCount(lines, per_file) == Max(CeilDiv(lines, per_file), 1)

RowsPerChunk(lines, count) == CeilDiv(lines, count)

\* data_start_pos
DataStartPos(bytes, header) ==
    LET line_breaks == LineBreaks(bytes) IN
    IF header /\ line_breaks # <<>> THEN line_breaks[1] + 1 ELSE 0

\* the index into line_breaks of the terminator a chunk boundary follows
TargetLine(start_line_idx, chunk_idx, per_chunk) ==
    start_line_idx + chunk_idx * per_chunk

\* the loop for chunk_idx in 1..file_count, with its break
RECURSIVE BoundaryLoop(_, _, _, _, _, _)
BoundaryLoop(bytes, start_line_idx, chunk_idx, count, per_chunk, acc) ==
    IF chunk_idx >= count THEN acc
    ELSE LET line_breaks == LineBreaks(bytes)
             target_line == TargetLine(start_line_idx, chunk_idx, per_chunk)
         IN  IF target_line < Len(line_breaks)
             THEN BoundaryLoop(bytes, start_line_idx, chunk_idx + 1, count, per_chunk,
                               Append(acc, line_breaks[target_line + 1] + 1))
             ELSE Append(acc, Len(bytes))

\* chunk_boundaries
ChunkBoundaries(bytes, header, count, per_chunk) ==
    LET start_line_idx == IF header /\ LineBreaks(bytes) # <<>> THEN 1 ELSE 0
        looped == BoundaryLoop(bytes, start_line_idx, 1, count, per_chunk,
                               <<DataStartPos(bytes, header)>>)
    IN  IF Len(looped) <= count THEN Append(looped, Len(bytes)) ELSE looped

\* target_rows of the worker of file_index
TargetRows(index, count, per_chunk, lines) ==
    IF index = count
    THEN per_chunk + SaturatingSub(lines % count, 1)
    ELSE per_chunk

\* headers of the parallel strategy
MtHeaders(records, header) ==
    LET col_count == IF records = <<>> THEN 0
                     ELSE IF header THEN (IF Len(records) >= 2 THEN Len(records[2]) ELSE 0)
                     ELSE Len(records[1])
    IN  IF header THEN (IF records = <<>> THEN <<>> ELSE records[1])
        ELSE DefaultHeaders(col_count)

\* the checks of the input file and create_dir_all
MtCreateDir ==
    /\ pc = "mt_validate"
    /\ IF ~input_exists THEN ReturnErr("InputMissing") /\ UNCHANGED dir
       ELSE IF dir = "uncreatable" THEN ReturnErr("CreateDirFailed") /\ UNCHANGED dir
       ELSE /\ dir' = IF dir = "absent" THEN "writable" ELSE dir
            /\ pc' = "mt_prepare"
            /\ UNCHANGED result
    /\ UNCHANGED <<request, preexisting, tmp, csv, xlsx, use_multithread, seq_locals, mt_locals,
                   threads, history>>

\* from the rows_per_file check to chunk_boundaries
MtPrepare ==
    /\ pc = "mt_prepare"
    /\ LET records == ParseRecords(input)
           lines == DataLines(input, has_header)
           count == FileCount(lines, rows_per_file)
           per_chunk == RowsPerChunk(lines, count)
       IN
       IF rows_per_file = 0
         THEN /\ ReturnErr("RowsPerFileZero")
              /\ UNCHANGED <<opened, headers, mt_locals>>
       ELSE IF Len(input) = 0
         THEN \* Mmap::map fails on an empty file, or the length check does
              /\ \E e \in {"MmapFailed", "EmptyFile"} : ReturnErr(e)
              /\ opened' = TRUE
              /\ UNCHANGED <<headers, mt_locals>>
       ELSE IF lines = 0
         THEN /\ ReturnErr("NoDataRows")
              /\ opened' = TRUE
              /\ UNCHANGED <<headers, mt_locals>>
       ELSE IF has_header /\ Len(records) >= 2 /\ ~RecordOk(records, 2)
         THEN \* read_record(&mut first_record) fails
              /\ ReturnErr("ReadFailed")
              /\ opened' = TRUE
              /\ UNCHANGED <<headers, mt_locals>>
       ELSE /\ opened' = TRUE
            /\ data_lines' = lines
            /\ file_count' = count
            /\ rows_per_chunk' = per_chunk
            /\ headers' = MtHeaders(records, has_header)
            /\ chunk_boundaries' = ChunkBoundaries(input, has_header, count, per_chunk)
            /\ file_index' = 1
            /\ pc' = "mt_spawn"
            /\ UNCHANGED <<result, completed_files>>
    /\ UNCHANGED <<request, outdir, use_multithread, reader, current_file_index,
                   current_row_count, total_files, record_count, convert_index,
                   threads, created, flushed>>

\* a worker thread as thread::spawn leaves it
NewWorker(start_pos, end_pos) ==
    [st |-> "spawned", start_pos |-> start_pos, end_pos |-> end_pos,
     rows_written |-> 0, result |-> ""]

\* one turn of the spawn loop; when the loop ends, drop(tx)
MtSpawn ==
    /\ pc = "mt_spawn"
    /\ IF file_index > file_count \/ file_index >= Len(chunk_boundaries)
       THEN /\ tx_dropped' = TRUE
            /\ pc' = "mt_recv"
            /\ UNCHANGED <<handles, file_index>>
       ELSE LET start_pos == chunk_boundaries[file_index]
                end_pos == chunk_boundaries[file_index + 1]
            IN  /\ handles' = IF start_pos >= end_pos THEN handles
                              ELSE Put(handles, file_index, NewWorker(start_pos, end_pos))
                /\ file_index' = file_index + 1
                /\ UNCHANGED <<tx_dropped, pc>>
    /\ UNCHANGED <<request, outdir, use_multithread, result, seq_locals,
                   data_lines, file_count, rows_per_chunk, chunk_boundaries,
                   completed_files, channel, rx_dropped, semaphore, poisoned,
                   history>>

\* a thread that has ended has dropped its sender
Ended(w) == handles[w].st \in {"exited", "panicked"}

\* every sender is dropped: the iteration over rx ends
ChannelClosed == tx_dropped /\ \A w \in DOMAIN handles : Ended(w)

\* every result taken for Ok(_)
IsErrNever(msg) == FALSE

\* match result: the message (file_index, result) carries Err(e)
IsErr(msg) == msg[2] # "Ok"

\* one turn of the loop over rx, or its end
MtRecv ==
    /\ pc = "mt_recv"
    /\ IF channel # <<>>
       THEN LET msg == Head(channel) IN
            /\ channel' = Tail(channel)
            /\ IF ~IsErr(msg)
               THEN /\ completed_files' = completed_files + 1
                    /\ UNCHANGED <<pc, result, rx_dropped>>
               ELSE /\ result' = Failure(msg[2], msg[1])
                    /\ pc' = "done"
                    /\ rx_dropped' = TRUE
                    /\ UNCHANGED completed_files
       ELSE /\ ChannelClosed
            /\ pc' = "mt_join"
            /\ UNCHANGED <<channel, completed_files, result, rx_dropped>>
    /\ UNCHANGED <<request, outdir, use_multithread, seq_locals, data_lines,
                   file_count, rows_per_chunk, chunk_boundaries, file_index,
                   handles, tx_dropped, semaphore, poisoned, history>>

\* handle.join().unwrap() of every handle, then the conversion or the return
\* (params.convert_to_excel is read here and nowhere before)
MtJoin ==
    /\ pc = "mt_join"
    /\ \A w \in DOMAIN handles : Ended(w)
    /\ IF \E w \in DOMAIN handles : handles[w].st = "panicked"
       THEN /\ result' = CommandErr("Panic")
            /\ pc' = "done"
            /\ rx_dropped' = TRUE
            /\ UNCHANGED convert_to_excel
       ELSE \E flag \in BOOLEAN :
              /\ convert_to_excel' = flag
              /\ IF flag THEN pc' = "mt_convert" /\ UNCHANGED <<result, rx_dropped>>
                 ELSE ReturnOk(completed_files) /\ rx_dropped' = TRUE
    /\ UNCHANGED <<source, outdir, use_multithread, seq_locals, mt_locals,
                   handles, channel, tx_dropped, semaphore, poisoned, history>>

\* the smallest index of a set of shard indices
Lowest(S) == CHOOSE i \in S : \A j \in S : i <= j

\* The .csv files of the output directory whose stem starts with file_stem,
\* sorted by path: <stem>.csv, then <stem>_1.csv, <stem>_2.csv, ..., then
\* <stem>_9.csv.  This is the first of them, or "none".
FirstCsvFile ==
    IF "input" \in others THEN "input"
    ELSE IF DOMAIN csv # {} THEN "shard"
    ELSE IF "earlier" \in others THEN "earlier"
    ELSE "none"

\* one turn of the loop of convert_all_csv_to_excel over these files
MtConvert ==
    /\ pc = "mt_convert"
    /\ LET f == FirstCsvFile IN
       IF f = "none"
       THEN /\ ReturnOk(completed_files)
            /\ rx_dropped' = TRUE
            /\ UNCHANGED <<csv, xlsx, preexisting>>
       ELSE \E io \in ConvertOutcomes :
            IF f = "shard"
            THEN LET i == Lowest(DOMAIN csv)
                     outcome == ConvertOutcome(csv[i], io)
                 IN  /\ xlsx' = XlsxAfterConvert(xlsx, csv, i, outcome)
                     /\ csv' = CsvAfterConvert(csv, i, outcome)
                     /\ UNCHANGED preexisting
                     /\ IF outcome = "ok"
                          THEN UNCHANGED <<pc, result, rx_dropped>>
                          ELSE ReturnErr("ConvertFailed") /\ rx_dropped' = TRUE
            ELSE LET outcome == ConvertOutcome(OtherRows(f), io)
                 IN  /\ others_xlsx' = IF outcome = "save_failed" THEN others_xlsx
                                       ELSE others_xlsx \cup {f}
                     /\ others' = IF outcome = "ok" THEN others \ {f} ELSE others
                     /\ UNCHANGED <<csv, xlsx>>
                     /\ IF outcome = "ok"
                          THEN UNCHANGED <<pc, result, rx_dropped>>
                          ELSE ReturnErr("ConvertFailed") /\ rx_dropped' = TRUE
    /\ UNCHANGED <<request, dir, tmp, use_multithread, seq_locals, mt_locals,
                   handles, channel, tx_dropped, semaphore, poisoned, history>>

\* ------------------------------------------------------- the worker threads

\* the records of the byte range of worker w
ChunkRecords(w) ==
    ParseRecords(SubSeq(input, handles[w].start_pos + 1,
                        Min(handles[w].end_pos, Len(input))))

\* skip_lines of worker w
SkipLines(w) == IF has_header /\ handles[w].start_pos = 0 THEN 1 ELSE 0

WorkerUnchanged ==
    UNCHANGED <<request, preexisting, dir, tmp, xlsx, pc, use_multithread, result, seq_locals,
                mt_locals, tx_dropped, rx_dropped, opened>>

\* semaphore.lock().unwrap(): the lock is taken, or it is poisoned and the
\* thread panics
WorkerLock(w) ==
    /\ handles[w].st = "spawned"
    /\ semaphore = 0
    /\ IF poisoned
       THEN /\ handles' = [handles EXCEPT ![w].st = "panicked"]
            /\ UNCHANGED semaphore
       ELSE /\ handles' = [handles EXCEPT ![w].st = "locked"]
            /\ semaphore' = w
    /\ UNCHANGED <<csv, channel, poisoned, created, flushed>>
    /\ WorkerUnchanged

\* File::create of the shard and the header row
WorkerCreate(w) ==
    /\ handles[w].st = "locked"
    /\ IF dir # "writable"
       THEN /\ handles' = [handles EXCEPT ![w].st = "finished",
                                          ![w].result = "CreateFailed"]
            /\ UNCHANGED <<csv, created>>
       ELSE /\ csv' = Put(csv, w, <<headers>>)
            /\ created' = created \cup {w}
            /\ handles' = [handles EXCEPT ![w].st = "writing"]
    /\ UNCHANGED <<channel, semaphore, poisoned, flushed>>
    /\ WorkerUnchanged

\* one turn of the write loop, or its end and the flush
WorkerRow(w) ==
    /\ handles[w].st = "writing"
    /\ LET records == ChunkRecords(w)
           j == SkipLines(w) + handles[w].rows_written + 1
           target_rows == TargetRows(w, file_count, rows_per_chunk, data_lines)
       IN
       IF handles[w].rows_written < target_rows /\ j <= Len(records)
       THEN IF ~RecordOk(records, j)
            THEN /\ handles' = [handles EXCEPT ![w].st = "finished",
                                               ![w].result = "ReadFailed"]
                 /\ UNCHANGED <<csv, flushed>>
            ELSE IF ~WriterOk(headers, records[j])
            THEN /\ handles' = [handles EXCEPT ![w].st = "finished",
                                               ![w].result = "WriteFailed"]
                 /\ UNCHANGED <<csv, flushed>>
            ELSE /\ csv' = Put(csv, w, Append(csv[w], records[j]))
                 /\ handles' = [handles EXCEPT ![w].rows_written = @ + 1]
                 /\ UNCHANGED flushed
       ELSE \* the loop has ended: writer.flush()
            /\ handles' = [handles EXCEPT ![w].st = "finished", ![w].result = "Ok"]
            /\ flushed' = FlushWriter(flushed, w)
            /\ UNCHANGED csv
    /\ UNCHANGED <<channel, semaphore, poisoned, created>>
    /\ WorkerUnchanged

\* tx.send((file_index, result)).unwrap(): the send fails, and the thread
\* panics holding the lock, when the receiver is gone
WorkerSend(w) ==
    /\ handles[w].st = "finished"
    /\ IF rx_dropped
       THEN /\ handles' = [handles EXCEPT ![w].st = "panicked"]
            /\ semaphore' = 0
            /\ poisoned' = TRUE
            /\ UNCHANGED channel
       ELSE /\ channel' = Append(channel, <<w, handles[w].result>>)
            /\ handles' = [handles EXCEPT ![w].st = "sent"]
            /\ UNCHANGED <<semaphore, poisoned>>
    /\ UNCHANGED <<csv, created, flushed>>
    /\ WorkerUnchanged

\* the closure ends: the guard and the sender are dropped
WorkerExit(w) ==
    /\ handles[w].st = "sent"
    /\ handles' = [handles EXCEPT ![w].st = "exited"]
    /\ semaphore' = 0
    /\ UNCHANGED <<csv, channel, poisoned, created, flushed>>
    /\ WorkerUnchanged

Next ==
    \/ SplitCsv
    \/ SeqValidate
    \/ SeqCreateDir
    \/ SeqProbe
    \/ SeqProbeRemove
    \/ SeqOpen
    \/ SeqRecord
    \/ SeqFinish
    \/ SeqConvert
    \/ MtCreateDir
    \/ MtPrepare
    \/ MtSpawn
    \/ MtRecv
    \/ MtJoin
    \/ MtConvert
    \/ \E w \in DOMAIN handles : WorkerLock(w)
    \/ \E w \in DOMAIN handles : WorkerCreate(w)
    \/ \E w \in DOMAIN handles : WorkerRow(w)
    \/ \E w \in DOMAIN handles : WorkerSend(w)
    \/ \E w \in DOMAIN handles : WorkerExit(w)

Spec == Init /\ [][Next]_vars

\* ------------------------------------------------------- the shards on disk

\* the indices i with a shard <stem>_i.csv or its spreadsheet <stem>_i.xlsx
Shards == DOMAIN csv \cup DOMAIN xlsx

\* the rows of shard i, the header row first
ShardFile(i) == IF i \in DOMAIN csv THEN csv[i] ELSE xlsx[i]

ShardHeader(i) == Head(ShardFile(i))

\* the data rows of shard i
ShardRows(i) == Tail(ShardFile(i))

ShardFiles == [i \in Shards |-> ShardFile(i)]

\* the data rows of shards i..last, in the order of the shard index
RECURSIVE RowsFrom(_, _)
RowsFrom(i, last) ==
    IF i > last THEN <<>>
    ELSE (IF i \in Shards THEN ShardRows(i) ELSE <<>>) \o RowsFrom(i + 1, last)

AllShardRows == RowsFrom(1, MaxPlainLines + MaxLines + 2)

\* ------------------------------------------------------ a second call

\* split_csv is called again on the same request, the output directory
\* emptied, with the source on the other side of the selector's thresholds.
Rerun ==
    /\ pc = "done"
    /\ ~prev.called
    /\ result.ret = "Ok"
    /\ \A w \in DOMAIN handles : Ended(w)
    /\ prev' = [called |-> TRUE, use_multithread |-> use_multithread,
                result |-> result, files |-> ShardFiles]
    /\ use_multithread' = ~use_multithread
    /\ pc' = IF use_multithread THEN "validate" ELSE "mt_validate"
    /\ result' = NoResult
    /\ convert_to_excel' = FALSE
    /\ csv' = Empty
    /\ xlsx' = Empty
    /\ headers' = <<>>
    /\ reader' = 0
    /\ current_file_index' = 1
    /\ current_row_count' = 0
    /\ total_files' = 0
    /\ record_count' = 0
    /\ convert_index' = 1
    /\ data_lines' = 0
    /\ file_count' = 0
    /\ rows_per_chunk' = 0
    /\ chunk_boundaries' = <<>>
    /\ file_index' = 1
    /\ completed_files' = 0
    /\ handles' = Empty
    /\ channel' = <<>>
    /\ tx_dropped' = FALSE
    /\ rx_dropped' = FALSE
    /\ semaphore' = 0
    /\ poisoned' = FALSE
    /\ created' = {}
    /\ flushed' = {}
    /\ opened' = FALSE
    /\ UNCHANGED <<input_exists, input, extension, rows_per_file, has_header,
                   dir, tmp, preexisting>>

\* a valid request on a plain source in a writable directory
InitPair ==
    /\ Init
    /\ input_exists
    /\ extension = "csv"
    /\ input \in PlainSources
    /\ rows_per_file >= 1
    /\ dir = "writable"

NextPair == Next \/ Rerun

\* Two calls on the same request, one with each strategy.
SpecPair == InitPair /\ [][NextPair]_vars

\* ---------------------------------------------------------------- the claims

\* the records of the source, as the csv reader gives them
SourceRecords == ParseRecords(input)

\* the data rows of the source
SourceRows ==
    IF has_header /\ SourceRecords # <<>> THEN Tail(SourceRecords) ELSE SourceRecords

\* every record of the source has the field count of the first: the reader
\* reads the source to its end without an error
WellFormed == GoodPrefix(SourceRecords, 1) = Len(SourceRecords)

\* the call has returned a SplitResult with success = true
Succeeded == pc = "done" /\ result.ret = "Ok" /\ result.success

\* a valid request: a non-empty .csv source of n >= 1 well-formed data rows,
\* rows_per_file >= 1
ValidRequest ==
    /\ input_exists
    /\ extension = "csv"
    /\ WellFormed
    /\ Len(SourceRows) >= 1
    /\ rows_per_file >= 1

\* a valid request on a source without a defective line, every line of it
\* terminated
PlainRequest ==
    /\ ValidRequest
    /\ input \in PlainSources
    /\ input[Len(input)] = NL

\* rows first..last of the source's data rows
RowsOfSource(first, last) == SubSeq(SourceRows, first, last)

\* C1: parallel strategy, once it has returned success on a valid request
\* (here: on a source of terminated lines, one record each): the data rows of
\* the shards, taken in the order of the shard index, are exactly the data
\* rows of the source in their order (none dropped, duplicated or reordered).
C1_ParallelKeepsEveryRow ==
    (Succeeded /\ use_multithread /\ PlainRequest)
    => AllShardRows = SourceRows

\* C2: sequential strategy, valid request, writable output directory: the call
\* succeeds (unless a spreadsheet conversion fails), the shards are those of
\* index 1..ceil(n / r), and shard i holds exactly the source's data rows
\* (i-1)*r+1 .. min(i*r, n) in source order; so every shard but the last holds
\* r rows and the last holds n - r*(file_count - 1).
C2_SequentialShardLayout ==
    ( /\ pc = "done"
      /\ ~use_multithread
      /\ ~prev.called
      /\ ValidRequest
      /\ dir = "writable"
      /\ result.error # "ConvertFailed" )
    => LET n == Len(SourceRows)
           r == rows_per_file
           count == CeilDiv(n, r)
       IN  /\ Succeeded
           /\ Shards = 1..count
           /\ \A i \in 1..count :
                /\ ShardRows(i) = RowsOfSource((i - 1) * r + 1, Min(i * r, n))
                /\ i < count => Len(ShardRows(i)) = r
           /\ Len(ShardRows(count)) = n - r * (count - 1)

\* C2, its case: a header and 9 data rows with rows_per_file = 4 have been
\* split sequentially into shards of 4, 4 and 1 rows.
C2_NineRowsByFour ==
    /\ Succeeded
    /\ ~use_multithread
    /\ has_header
    /\ Len(SourceRows) = 9
    /\ rows_per_file = 4
    /\ Shards = {1, 2, 3}
    /\ Len(ShardRows(1)) = 4
    /\ Len(ShardRows(2)) = 4
    /\ Len(ShardRows(3)) = 1

\* C3: for a valid request (here: on a source of terminated lines, one record
\* each), whichever strategy ran, the file_count returned with success is
\* ceil(n / r) and is the number of shard files the call created.
C3_FileCountIsCeiling ==
    (Succeeded /\ PlainRequest)
    => /\ result.file_count = CeilDiv(Len(SourceRows), rows_per_file)
       /\ result.file_count = Cardinality(created)

\* C4: the two strategies, run on the same source with the same rows_per_file
\* and has_header and both successful, return the same file_count and leave
\* the same shard files with the same rows.
C4_StrategiesAgree ==
    (prev.called /\ prev.result.success /\ Succeeded /\ PlainRequest)
    => /\ result.file_count = prev.result.file_count
       /\ ShardFiles = prev.files

\* the header row the shards are to carry: the first record of the source, or
\* column_1..column_k for its k fields
ExpectedHeader ==
    IF SourceRecords = <<>> THEN <<>>
    ELSE IF has_header THEN SourceRecords[1]
    ELSE DefaultHeaders(Len(SourceRecords[1]))

\* C5: the first row of every shard, of either strategy, is the header row
\* (the source's first record with has_header, column_1..column_k without);
\* and without has_header, once a valid request has succeeded, the first
\* record of the source is the first data row of shard 1.
C5_HeaderRowFirst ==
    /\ \A i \in Shards : ShardHeader(i) = ExpectedHeader
    /\ (Succeeded /\ ValidRequest /\ ~has_header)
       => /\ 1 \in Shards
          /\ ShardRows(1) # <<>>
          /\ Head(ShardRows(1)) = SourceRecords[1]

\* C6: in every reachable state of either strategy every shard holds at most
\* rows_per_file data rows, the shard of the last chunk's worker (whose
\* target_rows may exceed rows_per_file) included.
C6_ShardWithinRowsPerFile ==
    \A i \in Shards : Len(ShardRows(i)) <= rows_per_file

\* C7: split_csv never returns the command-level Err: every failure is a
\* SplitResult with success = false.
C7_NeverCommandErr == result.ret # "Err"

\* C8: an input without the .csv extension, or an empty one, is rejected by
\* either strategy: no shard file is ever created and the call does not
\* succeed.
C8_BadInputRejected ==
    (input_exists /\ (extension # "csv" \/ Len(input) = 0))
    => (created = {} /\ ~Succeeded)

\* C9: a valid request into an output directory that cannot be written: no
\* shard is created, the source is not processed, and the call fails with
\* the write-permission error, whichever strategy runs.
C9_UnwritableDirectory ==
    (PlainRequest /\ dir = "unwritable")
    => /\ created = {}
       /\ ~opened
       /\ pc = "done" => (~result.success /\ result.error = "NoWritePermission")

\* C10: rows_per_file = 0 on an otherwise valid request: at no point of the
\* call is there a file in the output directory (the write-probe file
\* included), and the call fails with the rows-per-file error.
C10_ZeroRowsCreatesNoFile ==
    ( /\ input_exists
      /\ extension = "csv"
      /\ Len(input) > 0
      /\ rows_per_file = 0
      /\ dir \notin {"unwritable", "uncreatable"} )
    => /\ ~tmp
       /\ Shards = {}
       /\ pc = "done" => (~result.success /\ result.error = "RowsPerFileZero")

\* C11: with convert_to_excel set, a step that deletes a shard .csv leaves its
\* spreadsheet written with the shard's rows, and a step that fails a
\* conversion deletes no .csv; and once the call has returned success every
\* shard 1..file_count is a .xlsx and no longer a .csv.
C11_DeletedOnlyAfterWritten ==
    /\ [][ /\ \A i \in (DOMAIN csv) \ (DOMAIN csv') :
                 i \in DOMAIN xlsx' /\ xlsx'[i] = csv[i]
           /\ (result.error # "ConvertFailed" /\ result'.error = "ConvertFailed")
              => csv' = csv ]_vars
    /\ []( (Succeeded /\ convert_to_excel)
           => \A i \in 1..result.file_count :
                i \in DOMAIN xlsx /\ i \notin DOMAIN csv )

\* C11, its case: a call with convert_to_excel has returned success after it
\* converted and deleted two shards or more.
C11_AllConverted ==
    /\ Succeeded
    /\ convert_to_excel
    /\ result.file_count >= 2
    /\ DOMAIN xlsx = 1..result.file_count
    /\ csv = Empty

\* C12: once the parallel operation has returned, with success or failure,
\* every worker thread it spawned has ended: none is waiting for the guard,
\* holds it, is writing or has its result still to send.
C12_WorkersEndedAtReturn ==
    (pc = "done" /\ use_multithread)
    => /\ \A w \in DOMAIN handles : Ended(w)
       /\ semaphore = 0

\* the chunks have been computed and every worker spawned
Spawned == use_multithread /\ tx_dropped

\* the number of lines in the byte range of worker w
ChunkLines(w) ==
    CountLines(SubSeq(input, handles[w].start_pos + 1,
                      Min(handles[w].end_pos, Len(input))), 1)

\* the sum of target_rows over the workers of S
RECURSIVE TargetRowsSum(_)
TargetRowsSum(S) ==
    IF S = {} THEN 0
    ELSE LET w == Lowest(S)
         IN  TargetRows(w, file_count, rows_per_chunk, data_lines)
             + TargetRowsSum(S \ {w})

\* C13: parallel strategy, once the chunks are spawned (here: on a source of
\* terminated lines, one record each): the target_rows of the spawned chunks
\* sum to data_lines, and the byte range of every chunk holds exactly its
\* target_rows lines.
C13_TargetsSumToDataLines ==
    (Spawned /\ PlainRequest)
    => /\ TargetRowsSum(DOMAIN handles) = data_lines
       /\ \A w \in DOMAIN handles :
            ChunkLines(w) = TargetRows(w, file_count, rows_per_chunk, data_lines)

\* The state of the csv reader after the first `stop` bytes of `bytes`: the
\* states of ParseFrom, without the fields.
RECURSIVE ReaderStateFrom(_, _, _, _)
ReaderStateFrom(bytes, i, st, stop) ==
    IF i > stop THEN st
    ELSE LET b == bytes[i] IN
      CASE st = "StartRecord" ->
             IF IsTerminator(b) THEN ReaderStateFrom(bytes, i + 1, "StartRecord", stop)
             ELSE ReaderStateFrom(bytes, i, "StartField", stop)
        [] st = "InQuotedField" ->
             ReaderStateFrom(bytes, i + 1,
                             IF b = QUOTE THEN "InDoubleEscapedQuote" ELSE st, stop)
        [] st = "StartField" /\ b = QUOTE ->
             ReaderStateFrom(bytes, i + 1, "InQuotedField", stop)
        [] st = "InDoubleEscapedQuote" /\ b = QUOTE ->
             ReaderStateFrom(bytes, i + 1, "InQuotedField", stop)
        [] OTHER ->
             ReaderStateFrom(bytes, i + 1,
                             IF IsTerminator(b) THEN "StartRecord"
                             ELSE IF b = COMMA THEN "StartField"
                             ELSE "InField", stop)

\* offset b of the source lies between two records (or at either end), not
\* inside one
AtRecordStart(bytes, b) ==
    ReaderStateFrom(bytes, 1, "StartRecord", b) = "StartRecord" \/ b = Len(bytes)

\* the offset of the byte after the terminator of the first record
HeaderEnd(bytes) ==
    LET ends == { b \in 1..Len(bytes) :
                    /\ AtRecordStart(bytes, b)
                    /\ ParseRecords(SubSeq(bytes, 1, b)) # <<>> }
    IN  IF ends = {} THEN Len(bytes) ELSE Lowest(ends)

\* the first byte of the data region
DataStart(bytes, header) == IF header THEN HeaderEnd(bytes) ELSE 0

\* C14: parallel strategy, once the chunks are spawned: the byte ranges of
\* the spawned chunks partition [data_start, file_size): the boundaries do not
\* decrease, the first chunk starts at data_start (the byte after the
\* header's terminator with has_header, else 0), consecutive chunks share
\* their boundary, the last chunk ends at file_size, and no chunk holds a
\* byte of the header.
C14_ChunksPartitionData ==
    Spawned
    => LET ws == DOMAIN handles
           data_start == DataStart(input, has_header)
       IN  /\ \A j \in 1..(Len(chunk_boundaries) - 1) :
                 chunk_boundaries[j] <= chunk_boundaries[j + 1]
           /\ ws = 1..Cardinality(ws)
           /\ ws # {}
           /\ handles[1].start_pos = data_start
           /\ \A w \in ws : w + 1 \in ws => handles[w].end_pos = handles[w + 1].start_pos
           /\ handles[Cardinality(ws)].end_pos = Len(input)
           /\ \A w \in ws : handles[w].start_pos >= data_start

\* C15: parallel strategy, once the chunks are computed, for every source
\* (those with line terminators inside a quoted field included): every chunk
\* boundary lies at the start of a record and never inside one.
C15_BoundariesAtRecordStarts ==
    Spawned
    => \A j \in 1..Len(chunk_boundaries) :
          AtRecordStart(input, chunk_boundaries[j])

\* C16: in both strategies no step changes a .csv file that was in the
\* output directory before the call (the input file itself, a shard of an
\* earlier run, any other .csv): none is converted and none is deleted.
C16_OtherFilesUntouched ==
    [][others' = others /\ others_xlsx' = others_xlsx]_vars

\* C17: sequential strategy: the call returns success only if no record of
\* the source failed to read (a source with a malformed record gives
\* success = false) and every record up to the end of the file was read and
\* written to a shard.
C17_SequentialReadsAllOrFails ==
    (Succeeded /\ ~use_multithread)
    => /\ WellFormed
       /\ AllShardRows = SourceRows

\* worker w has sent a failure to the coordinator
ReportedFailure(w) ==
    handles[w].st \in {"sent", "exited"} /\ handles[w].result # "Ok"

\* C18: parallel strategy, once the operation has returned: if a spawned
\* worker reported a failure, the result is a failure that carries the chunk
\* index and the error of a worker that failed, and no conversion has run;
\* the result is a success only if every spawned worker reported success, and
\* its count is then the number of workers spawned.
C18_WorkerFailureReturned ==
    (pc = "done" /\ use_multithread /\ Spawned)
    => /\ (\E w \in DOMAIN handles : ReportedFailure(w))
          => /\ ~result.success
             /\ result.chunk \in DOMAIN handles
             /\ ReportedFailure(result.chunk)
             /\ result.error = handles[result.chunk].result
             /\ xlsx = Empty
             /\ others_xlsx = {}
       /\ result.success
          => /\ \A w \in DOMAIN handles :
                  handles[w].st = "exited" /\ handles[w].result = "Ok"
             /\ result.file_count = Cardinality(DOMAIN handles)

\* C18, its case: with two workers or more spawned, the operation has
\* returned the failure that the worker of a chunk after the first reported.
C18_SecondChunkFailed ==
    /\ pc = "done"
    /\ use_multithread
    /\ Cardinality(DOMAIN handles) >= 2
    /\ ~result.success
    /\ result.chunk >= 2
    /\ ReportedFailure(result.chunk)

\* let _max_threads = 2: the cap the code names
max_threads == 2

\* worker w is past semaphore.lock() and has not left its closure
PastGuard(w) == handles[w].st \in {"locked", "writing", "finished", "sent"}

\* no more than max_threads workers are past the guard, each of them holding
\* it, and every other worker waits for the guard or has ended
GuardCap ==
    /\ Cardinality({ w \in DOMAIN handles : PastGuard(w) }) <= max_threads
    /\ \A w \in DOMAIN handles :
         \/ PastGuard(w) /\ semaphore = w
         \/ handles[w].st = "spawned"
         \/ Ended(w)

\* C19: parallel strategy, in every reachable state: at most max_threads = 2
\* workers are past the guard and writing a shard, every other spawned worker
\* waits for the guard (or has ended), and a worker releases the guard only
\* after it has sent its result.
C19_GuardCapAndRelease ==
    /\ []GuardCap
    /\ [][ \A w \in DOMAIN handles :
             (semaphore = w /\ semaphore' # w) => handles[w].st = "sent" ]_vars

\* ------------------------------------------------------------ fair scheduling

\* the steps of the task that runs split_csv (the coordinator)
Coordinator ==
    \/ SplitCsv
    \/ SeqValidate
    \/ SeqCreateDir
    \/ SeqProbe
    \/ SeqProbeRemove
    \/ SeqOpen
    \/ SeqRecord
    \/ SeqFinish
    \/ SeqConvert
    \/ MtCreateDir
    \/ MtPrepare
    \/ MtSpawn
    \/ MtRecv
    \/ MtJoin
    \/ MtConvert

\* the steps of the thread spawned for chunk w
WorkerStep(w) ==
    /\ w \in DOMAIN handles
    /\ \/ WorkerLock(w)
       \/ WorkerCreate(w)
       \/ WorkerRow(w)
       \/ WorkerSend(w)
       \/ WorkerExit(w)

\* the requests on a source of at most MaxFairLines lines, in an output
\* directory without other .csv files
InitFair ==
    /\ Init
    /\ CountLines(input, 1) <= MaxFairLines
    /\ others = {}

\* The operating system runs every thread that can take a step: the
\* coordinator and each spawned thread are scheduled again and again.
SpecFair ==
    /\ InitFair
    /\ [][Next]_vars
    /\ WF_vars(Coordinator)
    /\ \A w \in 1..MaxShards : WF_vars(WorkerStep(w))

\* C20: under fair scheduling the parallel operation always returns, every
\* spawned worker ends having acquired the guard, sent its one message and
\* released the guard, and the drain loop takes at most one message for
\* each spawned worker.
C20_ParallelReturnsAndWorkersSend ==
    /\ (pc = "mt_validate") ~> (pc = "done")
    /\ \A w \in 1..MaxShards :
         (w \in DOMAIN handles)
           ~> (w \in DOMAIN handles /\ handles[w].st = "exited")
    /\ [](completed_files <= Cardinality(DOMAIN handles))

\* the conversion pass of either strategy is running
Converting == pc \in {"convert", "mt_convert"}

\* the files a step has written a spreadsheet for
NewSheets == ((DOMAIN xlsx') \ (DOMAIN xlsx)) \cup (others_xlsx' \ others_xlsx)

\* C21: in both strategies a conversion starts only after every shard of the
\* run is completely written and flushed (sequential: the read loop has
\* ended and the last writer is flushed; parallel: every worker's result is
\* received and every handle joined); and files are converted one at a
\* time, by steps of the conversion pass alone, during which no shard is
\* created or written.
C21_ConversionAfterAllShards ==
    /\ []( Converting
           => /\ created # {}
              /\ flushed = created
              /\ created \subseteq Shards
              /\ use_multithread
                 => /\ \A w \in DOMAIN handles : handles[w].st = "exited"
                    /\ channel = <<>>
                    /\ completed_files = Cardinality(DOMAIN handles)
              /\ ~use_multithread
                 => LET records == ParseRecords(input) IN
                    reader = Len(records) \/ ~RecordOk(records, reader + 1) )
    /\ [][ /\ (xlsx' # xlsx \/ others_xlsx' # others_xlsx)
              => Converting /\ Cardinality(NewSheets) = 1
           /\ Converting
              => /\ created' = created
                 /\ \A i \in DOMAIN csv' : i \in DOMAIN csv /\ csv'[i] = csv[i] ]_vars

\* C21, its case: the parallel conversion pass is under way after two
\* workers or more wrote their shards: one shard is converted, another not
\* yet.
C21_ConvertingSecondShard ==
    /\ pc = "mt_convert"
    /\ Cardinality(DOMAIN handles) >= 2
    /\ DOMAIN xlsx # {}
    /\ DOMAIN csv # {}

====
